---- MODULE Spec2Model ----
(***************************************************************************)
(* Event_Sync: the social-score / activity-points bookkeeping of the       *)
(* student, attendance and event apps, with the views that drive it.       *)
(*                                                                         *)
(* Decimal(5,2) scores are integers in hundredths: 100.00 is 10000,        *)
(* 5.00 is 500, 2.50 is 250, 98.00 is 9800.  The float round trip of the   *)
(* code (float(Decimal) on read, DecimalField quantisation to two places   *)
(* on save) is exact on every value the model reaches, all of which have   *)
(* at most two decimals and lie in 0.00 .. 100.49 before clamping.         *)
(*                                                                         *)
(* Every view runs in autocommit mode: each ORM save / create / query is   *)
(* its own step, and steps of different requests interleave, except inside *)
(* the transaction.atomic block of QuerySet.get_or_create, whose INSERT    *)
(* and post_save receivers commit together.                                *)
(***************************************************************************)
EXTENDS Integers, Sequences, FiniteSets, TLC

\* ---------------------------------------------------------------- bounds
\* Ledger entries (over all students, counting those the requests in flight
\* will append) after which no further score-changing request is started.
MaxLog == 2

\* ------------------------------------------------------ program constants
DefaultScore == 10000
AbsentPenalty == 500
PresentBonus == 250
EligibilityThreshold == 9800
DefaultMaxRegistrations == 10

\* ------------------------------------------------------------ the entities
Students == {"s1", "s2"}
Events == {"e1", "e2"}
Reqs == {"r1", "r2"}

NULL == "NULL"

\* Event.event_type and Event.activity_points of the two events: e1 is a
\* NORMAL event without points, e2 an ACTIVITY_POINTS event worth 10 points.
event_type(e) == IF e = "e2" THEN "ACTIVITY_POINTS" ELSE "NORMAL"

activity_points(e) == IF e = "e2" THEN 10 ELSE 0

\* The scores a student record is created with: the field default, or, for
\* student s1, a value typed into the editable social_score field of the
\* admin's add form.
StartScores == {250, 9500, 9799, 9800, DefaultScore}

VARIABLES
    students,           \* students table: social_score, total_activity_points
    event_status,       \* events.event_status
    registrations,      \* event_registrations rows per (event, student)
    attendance,         \* attendance rows per (event, student), in insert order
    social_score_logs,  \* social_score_logs rows per student, oldest first
    req,                \* the requests in flight, one per worker
    score_ops,          \* per student, how many times decrease_social_score,
                        \* increase_social_score or reset_social_score has
                        \* written the score (an observer; no code reads it)
    event_row,          \* the events row a club member creates and edits
    event_edit_history, \* its event_edit_history rows, oldest first
    event_post,         \* the last create_event / edit_event POST and its result
    participants_limit, \* events.max_participants, 0 for NULL
    registrations_limit,\* students.max_event_registrations
    event_reports       \* event_reports rows per event

vars == <<students, event_status, registrations, attendance, social_score_logs,
          req, score_ops, event_row, event_edit_history, event_post,
          participants_limit, registrations_limit, event_reports>>

\* The columns of the events and students tables that the club, student and
\* admin forms set.
limits == <<participants_limit, registrations_limit>>

event_vars == <<event_row, event_edit_history, event_post, limits, event_reports>>

db == <<students, event_status, registrations, attendance, social_score_logs,
        event_row, event_edit_history, event_post, limits, event_reports>>

\* Event.max_participants
max_participants(e) == participants_limit[e]

Bump(s) == [score_ops EXCEPT ![s] = @ + 1]

Max(a, b) == IF a >= b THEN a ELSE b

Min(a, b) == IF a <= b THEN a ELSE b

\* --------------------------------------------------------- model methods

\* Event.has_activity_points: the type flag and a non-empty points value.
has_activity_points(e) ==
    event_type(e) = "ACTIVITY_POINTS" /\ activity_points(e) # 0

\* Event.get_registered_count
get_registered_count(e) ==
    Cardinality({s \in Students : registrations[e][s] = "REGISTERED"})

\* Event.is_full: a NULL (or 0) max_participants never fills.
is_full(e) ==
    IF max_participants(e) # 0
    THEN get_registered_count(e) >= max_participants(e)
    ELSE FALSE

\* Event.can_register; both events are dated today or later.
can_register(e) ==
    event_status[e] = "SCHEDULED" /\ ~is_full(e)

\* Student.get_active_registrations_count
get_active_registrations_count(s) ==
    Cardinality({e \in Events : /\ registrations[e][s] = "REGISTERED"
                                /\ event_status[e] \in {"SCHEDULED", "ONGOING"}})

\* Student.can_register_for_event
can_register_for_event(s) ==
    get_active_registrations_count(s) < registrations_limit[s]

\* The gate with a strict comparison.
can_register_strictly_above(score) ==
    score > EligibilityThreshold

\* The gate left out of the view.
can_register_ungated(score) ==
    TRUE

\* Student.can_register_for_activity_event, on the score of the student.
can_register_for_activity_event(score) ==
    score >= EligibilityThreshold

\* The number of rows of a (event, student) pair with the given status.
RECURSIVE CountStatus(_, _)
CountStatus(rows, st) ==
    IF rows = <<>> THEN 0
    ELSE (IF Head(rows) = st THEN 1 ELSE 0) + CountStatus(Tail(rows), st)

\* The loop of Student.calculate_activity_points over the events in es, on
\* the attendance table att.
RECURSIVE SumPoints(_, _, _)
SumPoints(att, s, es) ==
    IF es = {} THEN 0
    ELSE LET e == CHOOSE x \in es : TRUE
         IN (IF has_activity_points(e)
             THEN CountStatus(att[e][s], "PRESENT") * activity_points(e)
             ELSE 0)
            + SumPoints(att, s, es \ {e})

\* Student.calculate_activity_points, on the attendance table att.
calculate_activity_points(att, s) ==
    SumPoints(att, s, Events)

\* decrease_social_score without its floor at 0.
decrease_without_floor(score, amount) ==
    score - amount

\* increase_social_score without its cap at 100.
increase_without_cap(score, amount) ==
    score + amount

\* The increase that adds the amount twice.
increase_twice_amount(score, amount) ==
    Min(score + 2 * amount, 10000)

\* increase_social_score with the cap applied before the addition.
increase_cap_first(score, amount) ==
    Min(10000, score) + amount

\* Student.decrease_social_score: the score it stores.
decrease_social_score(score, amount) ==
    Max(0, score - amount)

\* Student.increase_social_score: the score it stores.
increase_social_score(score, amount) ==
    Min(10000, score + amount)

\* The attendance table without its unique constraint.
AttendanceNoConstraint(e, s) ==
    FALSE

\* The unique_together = ['event', 'student'] constraint of Attendance: an
\* INSERT for a pair that already has a row raises IntegrityError.
AttendanceUniqueViolation(e, s) ==
    attendance[e][s] # <<>>

\* The registrations table without its unique constraint.
RegistrationNoConstraint(e, s) ==
    FALSE

\* The unique_together = ['event', 'student'] constraint of EventRegistration.
RegistrationUniqueViolation(e, s) ==
    registrations[e][s] # "NONE"

\* ------------------------------------------------------------- requests

NoStudent == [social_score |-> 0, total_activity_points |-> 0]

Idle == [op |-> "idle", pc |-> "idle", event |-> NULL, student |-> NULL,
         status |-> NULL, stu |-> NoStudent, old_score |-> 0,
         fetched |-> NULL, created |-> FALSE, outcome |-> NULL,
         pdf_path |-> NULL, email_sent |-> NULL, event_obj |-> NULL]

AllIdle == \A r \in Reqs : req[r].op = "idle"

NoRemarks == [text |-> NULL, event |-> NULL]

\* The number of ledger entries of the students in ss.
RECURSIVE TotalLogs(_)
TotalLogs(ss) ==
    IF ss = {} THEN 0
    ELSE LET s == CHOOSE x \in ss : TRUE
         IN Len(social_score_logs[s]) + TotalLogs(ss \ {s})

\* The receiver with its PRESENT branch left out.
ChangesScoreAbsentOnly(e, st) ==
    st = "ABSENT"

\* The receiver without its has_activity_points test.
ChangesScoreAnyEvent(e, st) ==
    TRUE

\* The branches of update_student_social_score that reach
\* decrease_social_score / increase_social_score: ABSENT at any event,
\* PRESENT at an event without activity points.
ChangesScore(e, st) ==
    st = "ABSENT" \/ (st = "PRESENT" /\ ~has_activity_points(e))

\* The log row with the change written where the resulting score belongs.
ScoreLogEntrySwapped(st, new_score) ==
    IF st = "ABSENT"
    THEN [change_amount |-> 0 - AbsentPenalty, new_score |-> 0 - AbsentPenalty,
          reason |-> "ABSENT_FROM_EVENT", event |-> NULL, remarks |-> NoRemarks]
    ELSE [change_amount |-> PresentBonus, new_score |-> PresentBonus,
          reason |-> "PRESENT_AT_NON_ACTIVITY_EVENT", event |-> NULL,
          remarks |-> NoRemarks]

\* The SocialScoreLog row decrease_social_score / increase_social_score
\* create for a student object whose score is new_score.
ScoreLogEntry(st, new_score) ==
    IF st = "ABSENT"
    THEN [change_amount |-> 0 - AbsentPenalty, new_score |-> new_score,
          reason |-> "ABSENT_FROM_EVENT", event |-> NULL, remarks |-> NoRemarks]
    ELSE [change_amount |-> PresentBonus, new_score |-> new_score,
          reason |-> "PRESENT_AT_NON_ACTIVITY_EVENT", event |-> NULL,
          remarks |-> NoRemarks]

\* The receiver's follow-up on latest_log: the event reference and remark.
WithEvent(entry, st, e) ==
    [entry EXCEPT !.event = e,
                  !.remarks = [text |-> IF st = "ABSENT"
                                        THEN "Marked absent from"
                                        ELSE "Marked present at (Non-Activity Event)",
                               event |-> e]]

\* The score the receiver update_student_social_score leaves in the student
\* object: -5.00 on ABSENT, +2.50 on PRESENT at an event without points.
ScoredStudent(stu, e, st) ==
    IF ~ChangesScore(e, st) THEN stu
    ELSE IF st = "ABSENT"
    THEN [stu EXCEPT !.social_score = decrease_social_score(@, AbsentPenalty)]
    ELSE [stu EXCEPT !.social_score = increase_social_score(@, PresentBonus)]

\* No events row yet; an activity_points of <<>> is NULL, of <<n>> is n.
NoEvent == [event_type |-> NULL, activity_points |-> <<>>]

NoPost == [op |-> NULL, event_type |-> NULL, activity_points |-> NULL,
           outcome |-> NULL]

Init ==
    /\ \E sc \in StartScores :
           students = [s \in Students |->
                          [social_score |-> IF s = "s1" THEN sc ELSE DefaultScore,
                           total_activity_points |-> 0]]
    /\ event_status = [e \in Events |-> "SCHEDULED"]
    /\ registrations = [e \in Events |-> [s \in Students |-> "NONE"]]
    /\ attendance = [e \in Events |-> [s \in Students |-> <<>>]]
    /\ social_score_logs = [s \in Students |-> <<>>]
    /\ req = [r \in Reqs |-> Idle]
    /\ score_ops = [s \in Students |-> 0]
    /\ event_row = NoEvent
    /\ event_edit_history = <<>>
    /\ event_post = NoPost
    /\ participants_limit = [e \in Events |-> 0]
    /\ registrations_limit = [s \in Students |-> DefaultMaxRegistrations]
    /\ event_reports = [e \in Events |-> <<>>]

\* The requests in flight that append a ledger entry before they return.
Pending ==
    Cardinality({r \in Reqs : /\ req[r].pc # "done"
                              /\ \/ req[r].op = "reset_social_score"
                                 \/ /\ req[r].op = "event_attendance"
                                    /\ ChangesScore(req[r].event, req[r].status)})

\* The view without its test of the event status.
BeginAttendanceAnyStatus(r, e, s, st) ==
    /\ req[r].op = "idle"
    /\ registrations[e][s] = "REGISTERED"
    /\ ChangesScore(e, st) => TotalLogs(Students) + Pending < MaxLog
    /\ req' = [req EXCEPT ![r] = [Idle EXCEPT !.op = "event_attendance",
                                              !.pc = "get_or_create",
                                              !.event = e, !.student = s,
                                              !.status = st,
                                              !.stu = students[s]]]
    /\ UNCHANGED <<db, score_ops>>

\* ------------------------------------------ clubs.views.event_attendance
\* One POST that carries attendance_<student_id> = st for one registered
\* student of event e.  The view checks the event is ONGOING and iterates the
\* REGISTERED registrations, whose select_related student object is the one
\* Attendance.objects.get_or_create hands to a created row.
BeginAttendance(r, e, s, st) ==
    /\ req[r].op = "idle"
    /\ event_status[e] = "ONGOING"
    /\ registrations[e][s] = "REGISTERED"
    /\ ChangesScore(e, st) => TotalLogs(Students) + Pending < MaxLog
    /\ req' = [req EXCEPT ![r] = [Idle EXCEPT !.op = "event_attendance",
                                              !.pc = "get_or_create",
                                              !.event = e, !.student = s,
                                              !.status = st,
                                              !.stu = students[s]]]
    /\ UNCHANGED <<db, score_ops>>

\* get_or_create, the lookup: an existing row is returned with created False
\* (its student relation not loaded); more than one row raises
\* MultipleObjectsReturned.
GetOrCreateGet(r) ==
    /\ req[r].pc = "get_or_create"
    /\ LET rows == attendance[req[r].event][req[r].student]
       IN req' = [req EXCEPT ![r] =
              IF rows = <<>> THEN [@ EXCEPT !.pc = "create"]
              ELSE IF Len(rows) > 1
              THEN [@ EXCEPT !.pc = "done", !.outcome = "error", !.stu = NoStudent]
              ELSE [@ EXCEPT !.pc = "save", !.stu = NoStudent,
                             !.fetched = rows[1]]]
    /\ UNCHANGED <<db, score_ops>>

\* get_or_create, the create inside transaction.atomic: the INSERT and both
\* post_save receivers (update_student_activity_points, then
\* update_student_social_score) on the student object of the registration.
\* On IntegrityError the row is looked up again and returned with created False.
GetOrCreateCreate(r) ==
    /\ req[r].pc = "create"
    /\ LET e == req[r].event
           s == req[r].student
           st == req[r].status
       IN IF AttendanceUniqueViolation(e, s)
          THEN /\ req' = [req EXCEPT ![r] =
                             [@ EXCEPT !.pc = "save", !.stu = NoStudent,
                                       !.fetched = attendance[e][s][1],
                                       !.outcome = "integrity_error"]]
               /\ UNCHANGED <<db, score_ops>>
          ELSE LET att == [attendance EXCEPT ![e][s] = Append(@, st)]
                   stu1 == IF st = "PRESENT"
                           THEN [req[r].stu EXCEPT !.total_activity_points =
                                     calculate_activity_points(att, s)]
                           ELSE req[r].stu
                   stu2 == ScoredStudent(stu1, e, st)
               IN /\ attendance' = att
                  /\ students' = [students EXCEPT ![s] = stu2]
                  /\ social_score_logs' =
                        IF ChangesScore(e, st)
                        THEN [social_score_logs EXCEPT ![s] =
                                 Append(@, WithEvent(ScoreLogEntry(st, stu2.social_score), st, e))]
                        ELSE social_score_logs
                  /\ req' = [req EXCEPT ![r] = [@ EXCEPT !.pc = "done", !.created = TRUE,
                                                         !.stu = NoStudent, !.outcome = "marked"]]
                  /\ score_ops' = IF ChangesScore(e, st) THEN Bump(s) ELSE score_ops
                  /\ UNCHANGED <<event_status, registrations, event_vars>>

\* not created: attendance.save() writes the new status to the existing row.
AttendanceSave(r) ==
    /\ req[r].pc = "save"
    /\ attendance' = [attendance EXCEPT ![req[r].event][req[r].student] =
                          [i \in DOMAIN @ |-> IF i = 1 THEN req[r].status ELSE @[i]]]
    /\ req' = [req EXCEPT ![r] = [@ EXCEPT !.pc = "load_student"]]
    /\ UNCHANGED <<students, event_status, registrations, social_score_logs, score_ops, event_vars>>

\* The receivers' first access to instance.student fetches the student row.
LoadStudent(r) ==
    /\ req[r].pc = "load_student"
    /\ req' = [req EXCEPT ![r] = [@ EXCEPT !.stu = students[req[r].student],
                                           !.pc = IF req[r].status = "PRESENT"
                                                  THEN "update_activity_points"
                                                  ELSE "score_save"]]
    /\ UNCHANGED <<db, score_ops>>

\* update_student_activity_points on PRESENT: Student.update_activity_points
\* recomputes the total and saves the whole student object.
UpdateActivityPoints(r) ==
    /\ req[r].pc = "update_activity_points"
    /\ LET s == req[r].student
           stu1 == [req[r].stu EXCEPT !.total_activity_points =
                        calculate_activity_points(attendance, s)]
       IN /\ students' = [students EXCEPT ![s] = stu1]
          /\ req' = [req EXCEPT ![r] = [@ EXCEPT !.stu = IF ChangesScore(req[r].event, "PRESENT")
                                                         THEN stu1 ELSE NoStudent,
                                                 !.pc = IF ChangesScore(req[r].event, "PRESENT")
                                                        THEN "score_save" ELSE "done",
                                                 !.outcome = IF ChangesScore(req[r].event, "PRESENT")
                                                             THEN @ ELSE "marked"]]
    /\ UNCHANGED <<event_status, registrations, attendance, social_score_logs, score_ops, event_vars>>

\* decrease_social_score / increase_social_score: the clamped score is set on
\* the student object, which is saved whole.  old_score is the receiver's
\* local of that name, the object's score before the call.
ScoreSave(r) ==
    /\ req[r].pc = "score_save"
    /\ LET s == req[r].student
           stu2 == ScoredStudent(req[r].stu, req[r].event, req[r].status)
       IN /\ students' = [students EXCEPT ![s] = stu2]
          /\ req' = [req EXCEPT ![r] = [@ EXCEPT !.old_score = req[r].stu.social_score,
                                                 !.stu = stu2, !.pc = "log_create"]]
          /\ score_ops' = Bump(s)
    /\ UNCHANGED <<event_status, registrations, attendance, social_score_logs, event_vars>>

\* ... then SocialScoreLog.objects.create with the object's score.
LogCreate(r) ==
    /\ req[r].pc = "log_create"
    /\ social_score_logs' = [social_score_logs EXCEPT ![req[r].student] =
           Append(@, ScoreLogEntry(req[r].status, req[r].stu.social_score))]
    /\ req' = [req EXCEPT ![r] = [@ EXCEPT !.pc = "log_event"]]
    /\ UNCHANGED <<students, event_status, registrations, attendance, score_ops, event_vars>>

\* The follow-up on the newest entry of the whole table, of any student.
LogEventAnyStudent(r) ==
    /\ req[r].pc = "log_event"
    /\ \E s \in Students :
           /\ social_score_logs[s] # <<>>
           /\ social_score_logs' =
                 [social_score_logs EXCEPT ![s][Len(social_score_logs[s])] =
                     WithEvent(@, req[r].status, req[r].event)]
    /\ req' = [req EXCEPT ![r] = [@ EXCEPT !.pc = "done", !.outcome = "marked",
                                           !.stu = NoStudent, !.old_score = 0]]
    /\ UNCHANGED <<students, event_status, registrations, attendance, score_ops, event_vars>>

\* The receiver takes student.social_score_logs.first(), the newest entry of
\* the student, and saves the event reference and the remark on it.
LogEvent(r) ==
    /\ req[r].pc = "log_event"
    /\ LET s == req[r].student
           n == Len(social_score_logs[s])
       IN social_score_logs' =
             IF n = 0 THEN social_score_logs
             ELSE [social_score_logs EXCEPT ![s][n] =
                      WithEvent(@, req[r].status, req[r].event)]
    /\ req' = [req EXCEPT ![r] = [@ EXCEPT !.pc = "done", !.outcome = "marked",
                                           !.stu = NoStudent, !.old_score = 0]]
    /\ UNCHANGED <<students, event_status, registrations, attendance, score_ops, event_vars>>

\* ------------------------------- students.admin.StudentAdmin.reset_social_score
\* The action on a queryset of one selected student.
BeginReset(r, s) ==
    /\ req[r].op = "idle"
    /\ TotalLogs(Students) + Pending < MaxLog
    /\ req' = [req EXCEPT ![r] = [Idle EXCEPT !.op = "reset_social_score",
                                              !.pc = "reset_save",
                                              !.student = s,
                                              !.stu = students[s]]]
    /\ UNCHANGED <<db, score_ops>>

\* The reset's row with no change recorded.
ResetLogEntryNoDelta(old_score) ==
    [change_amount |-> 0, new_score |-> 10000, reason |-> "MANUAL_ADJUSTMENT",
     event |-> NULL, remarks |-> [text |-> "Reset by admin", event |-> NULL]]

\* The SocialScoreLog row reset_social_score creates.
ResetLogEntry(old_score) ==
    [change_amount |-> 10000 - old_score, new_score |-> 10000,
     reason |-> "MANUAL_ADJUSTMENT", event |-> NULL,
     remarks |-> [text |-> "Reset by admin", event |-> NULL]]

ResetSave(r) ==
    /\ req[r].pc = "reset_save"
    /\ LET s == req[r].student
           stu1 == [req[r].stu EXCEPT !.social_score = 10000]
       IN /\ students' = [students EXCEPT ![s] = stu1]
          /\ req' = [req EXCEPT ![r] = [@ EXCEPT !.old_score = req[r].stu.social_score,
                                                 !.stu = stu1, !.pc = "reset_log"]]
          /\ score_ops' = Bump(s)
    /\ UNCHANGED <<event_status, registrations, attendance, social_score_logs, event_vars>>

ResetLog(r) ==
    /\ req[r].pc = "reset_log"
    /\ social_score_logs' = [social_score_logs EXCEPT ![req[r].student] =
           Append(@, ResetLogEntry(req[r].old_score))]
    /\ req' = [req EXCEPT ![r] = [@ EXCEPT !.pc = "done", !.outcome = "reset",
                                           !.stu = NoStudent, !.old_score = 0]]
    /\ UNCHANGED <<students, event_status, registrations, attendance, score_ops, event_vars>>

\* --------------------------------------------- events.views.event_register
\* The view loads the student and the event and runs its checks in order.
RegisterCheck(r, e, s) ==
    /\ req[r].op = "idle"
    /\ LET stu == students[s]
           verdict ==
             IF has_activity_points(e) /\ ~can_register_for_activity_event(stu.social_score)
             THEN "blocked"
             ELSE IF ~can_register(e) THEN "closed"
             ELSE IF registrations[e][s] = "REGISTERED" THEN "already"
             ELSE IF ~can_register_for_event(s) THEN "limit"
             ELSE IF is_full(e) THEN "full"
             ELSE NULL
       IN req' = [req EXCEPT ![r] = [Idle EXCEPT !.op = "event_register",
                                                 !.event = e, !.student = s,
                                                 !.stu = stu,
                                                 !.pc = IF verdict = NULL
                                                        THEN "register_create" ELSE "done",
                                                 !.outcome = verdict]]
    /\ UNCHANGED <<db, score_ops>>

\* registration.full_clean(): EventRegistration.clean (the student's limit,
\* the event's capacity) and the uniqueness validation of (event, student);
\* a ValidationError ends in an error message and no row.
RegisterClean(r) ==
    /\ req[r].pc = "register_create"
    /\ LET e == req[r].event
           s == req[r].student
       IN req' = [req EXCEPT ![r] =
              IF \/ ~can_register_for_event(s)
                 \/ is_full(e)
                 \/ RegistrationUniqueViolation(e, s)
              THEN [@ EXCEPT !.pc = "done", !.outcome = "failed"]
              ELSE [@ EXCEPT !.pc = "register_save"]]
    /\ UNCHANGED <<db, score_ops>>

\* registration.save(): the INSERT, which the unique constraint of the table
\* refuses when a row of the pair exists; the IntegrityError ends in an error
\* message and no row.
RegisterSave(r) ==
    /\ req[r].pc = "register_save"
    /\ LET e == req[r].event
           s == req[r].student
       IN IF RegistrationUniqueViolation(e, s)
          THEN /\ req' = [req EXCEPT ![r] = [@ EXCEPT !.pc = "done", !.outcome = "failed"]]
               /\ UNCHANGED registrations
          ELSE /\ registrations' = [registrations EXCEPT ![e][s] = "REGISTERED"]
               /\ req' = [req EXCEPT ![r] = [@ EXCEPT !.pc = "done", !.outcome = "registered"]]
    /\ UNCHANGED <<students, event_status, attendance, social_score_logs, score_ops, event_vars>>

\* The two statements of the view's try block.
RegisterCreate(r) ==
    \/ RegisterClean(r)
    \/ RegisterSave(r)

\* The view returns its redirect; the worker is free again.
Return(r) ==
    /\ req[r].pc = "done"
    /\ req' = [req EXCEPT ![r] = Idle]
    /\ UNCHANGED <<db, score_ops>>

\* ------------------------------------- clubs.views.start_event / end_event
start_event(e) ==
    /\ event_status[e] = "SCHEDULED"
    /\ event_status' = [event_status EXCEPT ![e] = "ONGOING"]
    /\ UNCHANGED <<students, registrations, attendance, social_score_logs, req, score_ops, event_vars>>

\* Event.get_attendance_summary
get_attendance_summary(e) ==
    LET Rows(st) == {s \in Students : CountStatus(attendance[e][s], st) > 0}
        total_registered == get_registered_count(e)
        total_present == Cardinality(Rows("PRESENT"))
        total_absent == Cardinality(Rows("ABSENT"))
    IN [total_registered |-> total_registered,
        total_present |-> total_present,
        total_absent |-> total_absent,
        not_marked |-> total_registered - (total_present + total_absent)]

\* end_event: the view checks the event is ONGOING and saves it COMPLETED.
end_event(r, e) ==
    /\ req[r].op = "idle"
    /\ event_status[e] = "ONGOING"
    /\ event_status' = [event_status EXCEPT ![e] = "COMPLETED"]
    /\ req' = [req EXCEPT ![r] = [Idle EXCEPT !.op = "end_event", !.event = e,
                                              !.pc = "generate_report"]]
    /\ UNCHANGED <<students, registrations, attendance, social_score_logs, score_ops, event_vars>>

\* EventReport.generate_report: the row with the counts of the summary and
\* the percentage of the registered students that were present (hundredths;
\* exact for the counts of two students).
GenerateReport(r) ==
    /\ req[r].pc = "generate_report"
    /\ LET e == req[r].event
           summary == get_attendance_summary(e)
           report == [total_registered |-> summary.total_registered,
                      total_present |-> summary.total_present,
                      total_absent |-> summary.total_absent,
                      attendance_percentage |->
                          IF summary.total_registered > 0
                          THEN (summary.total_present * 10000) \div summary.total_registered
                          ELSE 0,
                      report_sent_to |-> NULL,
                      report_file_path |-> NULL]
       IN event_reports' = [event_reports EXCEPT ![e] = Append(@, report)]
    /\ req' = [req EXCEPT ![r] = [@ EXCEPT !.pc = "generate_pdf"]]
    /\ UNCHANGED <<students, event_status, registrations, attendance, social_score_logs,
                   score_ops, event_row, event_edit_history, event_post, limits>>

\* A failed send that undoes the completion of the event.
SendReportEmailRollingBack(r) ==
    /\ req[r].pc = "send_email"
    /\ \E sent \in BOOLEAN :
           /\ event_reports' =
                 [event_reports EXCEPT ![req[r].event] =
                     IF sent
                     THEN [i \in DOMAIN @ |->
                              IF i = Len(@)
                              THEN [@[i] EXCEPT !.report_sent_to = "club_head"]
                              ELSE @[i]]
                     ELSE <<>>]
           /\ event_status' = IF sent THEN event_status
                              ELSE [event_status EXCEPT ![req[r].event] = "ONGOING"]
           /\ req' = [req EXCEPT ![r] = [@ EXCEPT !.email_sent = sent, !.pc = "done",
                                                  !.outcome = "ended"]]
    /\ UNCHANGED <<students, registrations, attendance, social_score_logs,
                   score_ops, event_row, event_edit_history, event_post, limits>>

\* generate_event_pdf_report inside the view's try: it builds the file and
\* saves its path on the report, or raises; the view catches the exception
\* and goes on with pdf_path None.
GeneratePdf(r) ==
    /\ req[r].pc = "generate_pdf"
    /\ \E built \in BOOLEAN :
           /\ event_reports' =
                 IF built
                 THEN [event_reports EXCEPT ![req[r].event] =
                          [i \in DOMAIN @ |->
                              IF i = Len(@)
                              THEN [@[i] EXCEPT !.report_file_path = "reports/file.pdf"]
                              ELSE @[i]]]
                 ELSE event_reports
           /\ req' = [req EXCEPT ![r] = [@ EXCEPT !.pdf_path = built, !.pc = "send_email"]]
    /\ UNCHANGED <<students, event_status, registrations, attendance, social_score_logs,
                   score_ops, event_row, event_edit_history, event_post, limits>>

\* send_event_report_email: on success the address is saved on the report
\* and the result is True; without a club head, or when building or sending
\* the message raises, the result is False and nothing is written.
SendReportEmail(r) ==
    /\ req[r].pc = "send_email"
    /\ \E sent \in BOOLEAN :
           /\ event_reports' =
                 IF sent
                 THEN [event_reports EXCEPT ![req[r].event] =
                          [i \in DOMAIN @ |->
                              IF i = Len(@)
                              THEN [@[i] EXCEPT !.report_sent_to = "club_head"]
                              ELSE @[i]]]
                 ELSE event_reports
           /\ req' = [req EXCEPT ![r] = [@ EXCEPT !.email_sent = sent, !.pc = "done",
                                                  !.outcome = "ended"]]
    /\ UNCHANGED <<students, event_status, registrations, attendance, social_score_logs,
                   score_ops, event_row, event_edit_history, event_post, limits>>

\* The steps of an end_event request in flight.
EndStep(r) ==
    \/ GenerateReport(r)
    \/ GeneratePdf(r)
    \/ SendReportEmail(r)

\* ------------------------------------ clubs.views.create_event / edit_event
\* Entries of event_edit_history after which no further edit is posted.
MaxHistory == 2

\* EVENT_TYPE_CHOICES, and the event_type values a POST may carry.
EventTypeChoices == {"NORMAL", "ACTIVITY_POINTS"}

PostedTypes == EventTypeChoices \cup {"WORKSHOP"}

\* The activity_points texts a POST may carry, after strip().
PostedPoints == {"", "abc", "-1", "0", "1", "100", "101"}

\* int(text): the number, or ValueError, for which IsInt is false.
IsInt(text) == text \in {"-1", "0", "1", "100", "101"}

ToInt(text) ==
    CASE text = "-1" -> 0 - 1
      [] text = "0" -> 0
      [] text = "1" -> 1
      [] text = "100" -> 100
      [] text = "101" -> 101

\* Python truth of an activity_points value: None and 0 are false.
Truthy(points) == points # <<>> /\ points # <<0>>

\* Event.clean without its test of NORMAL events.
clean_ignoring_normal(event) ==
    /\ ~(event.event_type = "ACTIVITY_POINTS" /\ ~Truthy(event.activity_points))
    /\ ~(/\ Truthy(event.activity_points)
         /\ (event.activity_points[1] < 1 \/ event.activity_points[1] > 100))

\* Event.clean: TRUE when it raises no ValidationError.
clean(event) ==
    /\ ~(event.event_type = "ACTIVITY_POINTS" /\ ~Truthy(event.activity_points))
    /\ ~(event.event_type = "NORMAL" /\ Truthy(event.activity_points))
    /\ ~(/\ Truthy(event.activity_points)
         /\ (event.activity_points[1] < 1 \/ event.activity_points[1] > 100))

\* Event.full_clean: the choices of event_type, then clean.
full_clean(event) ==
    event.event_type \in EventTypeChoices /\ clean(event)

\* The POST of create_event with the event_type and activity_points fields
\* given, the other fields valid.
create_event(type, points) ==
    /\ event_row = NoEvent
    /\ LET refused == type = "ACTIVITY_POINTS" /\ (points = "" \/ ~IsInt(points))
           event == [event_type |-> type,
                     activity_points |-> IF type = "ACTIVITY_POINTS" /\ IsInt(points)
                                         THEN <<ToInt(points)>> ELSE <<>>]
           saved == ~refused /\ full_clean(event)
       IN /\ event_row' = IF saved THEN event ELSE event_row
          /\ event_post' = [op |-> "create_event", event_type |-> type,
                            activity_points |-> points,
                            outcome |-> IF saved THEN "saved" ELSE "rejected"]
    /\ UNCHANGED <<students, event_status, registrations, attendance,
                   social_score_logs, req, score_ops, event_edit_history,
                   limits, event_reports>>

\* The POST of edit_event on the stored event, which is SCHEDULED: the posted
\* points are taken only for ACTIVITY_POINTS, the posted type always; the
\* change of points is recorded after the save.
edit_event(type, points) ==
    /\ event_row # NoEvent
    /\ Len(event_edit_history) < MaxHistory
    /\ LET refused == type = "ACTIVITY_POINTS" /\ (points = "" \/ ~IsInt(points))
           new_points == IF type = "ACTIVITY_POINTS" /\ IsInt(points)
                         THEN <<ToInt(points)>> ELSE event_row.activity_points
           event == [event_type |-> type, activity_points |-> new_points]
           saved == ~refused /\ full_clean(event)
       IN /\ event_row' = IF saved THEN event ELSE event_row
          /\ event_edit_history' =
                IF saved /\ new_points # event_row.activity_points
                THEN Append(event_edit_history,
                            [field_changed |-> "activity_points",
                             old_value |-> event_row.activity_points,
                             new_value |-> new_points])
                ELSE event_edit_history
          /\ event_post' = [op |-> "edit_event", event_type |-> type,
                            activity_points |-> points,
                            outcome |-> IF saved THEN "saved" ELSE "rejected"]
    /\ UNCHANGED <<students, event_status, registrations, attendance,
                   social_score_logs, req, score_ops, limits, event_reports>>

\* ------------------------------------------------------- specifications
\* The steps of a marking or reset request in flight.
MarkStep(r) ==
    \/ GetOrCreateGet(r)
    \/ GetOrCreateCreate(r)
    \/ AttendanceSave(r)
    \/ LoadStudent(r)
    \/ UpdateActivityPoints(r)
    \/ ScoreSave(r)
    \/ LogCreate(r)
    \/ LogEvent(r)
    \/ ResetSave(r)
    \/ ResetLog(r)
    \/ Return(r)

\* The requests a worker may start: attendance markings and score resets ...
BeginMark(r, ss) ==
    \/ \E e \in Events, s \in ss, st \in {"PRESENT", "ABSENT"} :
           BeginAttendance(r, e, s, st)
    \/ \E s \in ss : BeginReset(r, s)

\* ... and registrations.
BeginRegister(r) ==
    \E e \in Events, s \in Students : RegisterCheck(r, e, s)

Lifecycle ==
    \/ \E e \in Events : start_event(e)
    \/ \E e \in Events : end_event("r1", e)

\* One request at a time, from the state after construction: a view starts
\* only when no other is in flight.
NextSeq ==
    \/ AllIdle /\ BeginMark("r1", Students)
    \/ AllIdle /\ BeginRegister("r1")
    \/ AllIdle /\ \E e \in Events : start_event(e)
    \/ \E r \in Reqs : MarkStep(r)
    \/ \E r \in Reqs : RegisterCreate(r)

SpecSeq == Init /\ [][NextSeq]_vars

\* A state SpecSeq reaches: every student has registered for each event
\* event_register admits them to (the point-bearing event only from 98.00
\* up) and both events have been started.  s1 is near the floor (2.50) or at
\* the cap (the default).
InitOngoing ==
    /\ \E sc \in {250, DefaultScore} :
           /\ students = [s \in Students |->
                             [social_score |-> IF s = "s1" THEN sc ELSE DefaultScore,
                              total_activity_points |-> 0]]
           /\ registrations =
                 [e \in Events |-> [s \in Students |->
                     IF /\ has_activity_points(e)
                        /\ s = "s1"
                        /\ ~can_register_for_activity_event(sc)
                     THEN "NONE" ELSE "REGISTERED"]]
    /\ event_status = [e \in Events |-> "ONGOING"]
    /\ attendance = [e \in Events |-> [s \in Students |-> <<>>]]
    /\ social_score_logs = [s \in Students |-> <<>>]
    /\ req = [r \in Reqs |-> Idle]
    /\ score_ops = [s \in Students |-> 0]
    /\ event_row = NoEvent
    /\ event_edit_history = <<>>
    /\ event_post = NoPost
    /\ participants_limit = [e \in Events |-> 0]
    /\ registrations_limit = [s \in Students |-> DefaultMaxRegistrations]
    /\ event_reports = [e \in Events |-> <<>>]

\* The students whose attendance the two concurrent workers mark.
Marked == {"s1"}

\* Two workers mark attendance and reset scores while both events are
\* ongoing; their requests interleave step by step.
Next ==
    \/ \E r \in Reqs : BeginMark(r, Marked)
    \/ \E r \in Reqs : MarkStep(r)

Spec == InitOngoing /\ [][Next]_vars

\* A database statement of the request raises (the connection drops, the
\* server refuses the write): the exception leaves the view, which catches
\* nothing, and the request ends.  What earlier statements committed stays;
\* the INSERT and receivers of get_or_create's atomic block, which are one
\* step, are rolled back together.
Fail(r) ==
    /\ req[r].pc \in {"get_or_create", "create", "save", "load_student",
                      "update_activity_points", "score_save", "log_create",
                      "log_event", "reset_save", "reset_log"}
    /\ req' = [req EXCEPT ![r] = [@ EXCEPT !.pc = "done", !.outcome = "error",
                                           !.stu = NoStudent, !.old_score = 0]]
    /\ UNCHANGED <<db, score_ops>>

\* The number of score writes so far, over the students in ss.
RECURSIVE TotalOps(_)
TotalOps(ss) ==
    IF ss = {} THEN 0
    ELSE LET s == CHOOSE x \in ss : TRUE
         IN score_ops[s] + TotalOps(ss \ {s})

\* One worker marks attendance and resets scores while both events are
\* ongoing, one request at a time, and any statement may fail.
NextFail ==
    \/ AllIdle /\ TotalOps(Students) < MaxLog /\ BeginMark("r1", Students)
    \/ MarkStep("r1")
    \/ Fail("r1")

SpecFail == InitOngoing /\ [][NextFail]_vars

\* Worker r1 marks and resets student s1 while worker r2 marks and resets
\* student s2; their requests interleave step by step.
NextPar ==
    \/ BeginMark("r1", {"s1"})
    \/ BeginMark("r2", {"s2"})
    \/ \E r \in Reqs : MarkStep(r)

SpecPar == InitOngoing /\ [][NextPar]_vars

\* A club member creates an event and edits it.
NextEvents ==
    \/ \E type \in PostedTypes, points \in PostedPoints : create_event(type, points)
    \/ \E type \in PostedTypes, points \in PostedPoints : edit_event(type, points)

SpecEvents == Init /\ [][NextEvents]_vars

\* ================================================================ claims

Last(seq) == seq[Len(seq)]

\* An event that is ACTIVITY_POINTS-typed and carries points.
PointBearing(e) == event_type(e) = "ACTIVITY_POINTS" /\ activity_points(e) > 0

\* The sum of activity_points over the PRESENT attendance rows of student s
\* at ACTIVITY_POINTS-typed events.
PresentPointSum(s) ==
    LET Pts(e) == IF event_type(e) = "ACTIVITY_POINTS"
                  THEN CountStatus(attendance[e][s], "PRESENT") * activity_points(e)
                  ELSE 0
    IN Pts("e1") + Pts("e2")

Quiescent == \A r \in Reqs : req[r].pc \in {"idle", "done"}

Marking(r) == req[r].op = "event_attendance"

\* The request takes the step that writes the score / appends the log row.
WritesScore(r) ==
    \/ req[r].pc = "score_save" /\ req'[r].pc = "log_create"
    \/ req[r].pc = "create" /\ req'[r].pc = "done"

AppendsLog(r) ==
    \/ req[r].pc = "log_create" /\ req'[r].pc = "log_event"
    \/ req[r].pc = "create" /\ req'[r].pc = "done"

Finishes(r) == req[r].pc # "done" /\ req'[r].pc = "done"

OthersUntouched(s) ==
    \A o \in Students \ {s} :
        /\ students'[o] = students[o]
        /\ social_score_logs'[o] = social_score_logs[o]

\* C1: in every reachable state, also with two workers marking and resetting
\* concurrently, every student's social_score lies in 0.00 .. 100.00.
C1_ScoreWithinBounds ==
    \A s \in Students :
        students[s].social_score >= 0 /\ students[s].social_score <= 10000

\* A PRESENT at the event without points was applied to a score of 100.00 and
\* the score stayed at the cap.
C1_Witness ==
    /\ students["s1"].social_score = 10000
    /\ social_score_logs["s1"] # <<>>
    /\ Last(social_score_logs["s1"]).reason = "PRESENT_AT_NON_ACTIVITY_EVENT"
    /\ Last(social_score_logs["s1"]).new_score = 10000

\* C2 (as claimed): once an attendance save has completed, the student's
\* total_activity_points equals the sum of activity_points over the
\* student's PRESENT attendance at ACTIVITY_POINTS events.
C2_TotalMatchesAttendance ==
    \A r \in Reqs :
        (Marking(r) /\ req[r].pc = "done")
            => students[req[r].student].total_activity_points
                   = PresentPointSum(req[r].student)

\* C3: with requests run one at a time, whenever no request is in progress
\* each student has exactly one ledger entry per score-changing operation,
\* and the newest entry's new_score is the student's current score.
C3_OneEntryPerScoreChange ==
    Quiescent =>
        \A s \in Students :
            /\ Len(social_score_logs[s]) = score_ops[s]
            /\ score_ops[s] > 0
                   => Last(social_score_logs[s]).new_score = students[s].social_score

\* An absence, then a reset, each with its own entry.
C3_Witness ==
    /\ Quiescent
    /\ score_ops["s1"] = 2
    /\ social_score_logs["s1"][1].reason = "ABSENT_FROM_EVENT"
    /\ social_score_logs["s1"][2].reason = "MANUAL_ADJUSTMENT"
    /\ students["s1"].social_score = 10000

\* C4: with requests run one at a time, an ABSENT marking (at either event)
\* writes max(0.00, previous - 5.00) as the score, appends exactly one ledger
\* entry with reason ABSENT_FROM_EVENT, change -5.00 and the score just
\* written, and finishes only after both.
C4_AbsentDecreasesByFive ==
    [][\A r \in Reqs :
          (Marking(r) /\ req[r].status = "ABSENT") =>
              LET s == req[r].student
                  old == students[s].social_score
                  new == students'[s].social_score
              IN /\ WritesScore(r) =>
                        new = (IF old >= 500 THEN old - 500 ELSE 0)
                 /\ AppendsLog(r) =>
                        /\ Len(social_score_logs'[s]) = Len(social_score_logs[s]) + 1
                        /\ SubSeq(social_score_logs'[s], 1, Len(social_score_logs[s]))
                               = social_score_logs[s]
                        /\ Last(social_score_logs'[s]).reason = "ABSENT_FROM_EVENT"
                        /\ Last(social_score_logs'[s]).change_amount = -500
                        /\ Last(social_score_logs'[s]).new_score = new
                 /\ Finishes(r) => req[r].pc \in {"create", "log_event"}
                 /\ ~WritesScore(r) => new = old]_vars

\* An absence from 2.50 has ended at 0.00.
C4_Witness ==
    \E r \in Reqs :
        /\ Marking(r) /\ req[r].status = "ABSENT" /\ req[r].pc = "done"
        /\ req[r].student = "s1"
        /\ students["s1"].social_score = 0
        /\ Len(social_score_logs["s1"]) = 1
        /\ social_score_logs["s1"][1].reason = "ABSENT_FROM_EVENT"
        /\ social_score_logs["s1"][1].new_score = 0

\* C5: with requests run one at a time, a PRESENT marking at an event that
\* is not point-bearing writes min(100.00, previous + 2.50) as the score and
\* appends exactly one ledger entry with reason
\* PRESENT_AT_NON_ACTIVITY_EVENT, change +2.50 and the score just written;
\* from 97.50 the score becomes exactly 100.00.
C5_PresentIncreasesByTwoAndHalf ==
    [][\A r \in Reqs :
          (Marking(r) /\ req[r].status = "PRESENT" /\ ~PointBearing(req[r].event)) =>
              LET s == req[r].student
                  old == students[s].social_score
                  new == students'[s].social_score
              IN /\ WritesScore(r) =>
                        /\ new = (IF old + 250 <= 10000 THEN old + 250 ELSE 10000)
                        /\ old = 9750 => new = 10000
                 /\ AppendsLog(r) =>
                        /\ Len(social_score_logs'[s]) = Len(social_score_logs[s]) + 1
                        /\ SubSeq(social_score_logs'[s], 1, Len(social_score_logs[s]))
                               = social_score_logs[s]
                        /\ Last(social_score_logs'[s]).reason
                               = "PRESENT_AT_NON_ACTIVITY_EVENT"
                        /\ Last(social_score_logs'[s]).change_amount = 250
                        /\ Last(social_score_logs'[s]).new_score = new
                 /\ Finishes(r) => req[r].pc \in {"create", "log_event"}
                 /\ ~WritesScore(r) => new = old]_vars

\* Two PRESENT markings at the event without points: 95.00 to 97.50, then
\* 97.50 to exactly 100.00.
C5_Witness ==
    /\ Quiescent
    /\ Len(social_score_logs["s1"]) = 2
    /\ social_score_logs["s1"][1].new_score = 9750
    /\ social_score_logs["s1"][2].reason = "PRESENT_AT_NON_ACTIVITY_EVENT"
    /\ social_score_logs["s1"][2].new_score = 10000
    /\ students["s1"].social_score = 10000

\* C6: with requests run one at a time, no step of a PRESENT marking at a
\* point-bearing event changes the student's social_score or the ledger (or
\* any other student); when it finishes, total_activity_points is the
\* recomputed sum.
C6_PresentAtPointEventFrame ==
    [][\A r \in Reqs :
          (Marking(r) /\ req[r].status = "PRESENT" /\ PointBearing(req[r].event)) =>
              LET s == req[r].student
              IN /\ students'[s].social_score = students[s].social_score
                 /\ social_score_logs' = social_score_logs
                 /\ OthersUntouched(s)
                 /\ Finishes(r) =>
                        students'[s].total_activity_points = PresentPointSum(s)']_vars

\* A student below 100.00 was marked PRESENT at the 10-point event: 10
\* points, the score and the (non-empty) ledger as they were.
C6_Witness ==
    \E r \in Reqs :
        /\ Marking(r) /\ req[r].status = "PRESENT" /\ req[r].event = "e2"
        /\ req[r].student = "s1" /\ req[r].pc = "done"
        /\ students["s1"].total_activity_points = 10
        /\ students["s1"].social_score = 9500
        /\ Len(social_score_logs["s1"]) = 1

\* The step on which event_register loads the student and runs its checks.
ChecksRegistration(r) == req[r].op = "idle" /\ req'[r].op = "event_register"

\* C7: with requests run one at a time, event_register's evaluation of
\* can_register_for_activity_event for a point-bearing event lets the
\* student through exactly when social_score >= 98.00 (not at 97.99, at
\* 98.00), and the evaluation changes nothing in the database.
C7_EligibleIffAtLeast98 ==
    [][\A r \in Reqs :
          (ChecksRegistration(r) /\ PointBearing(req'[r].event)) =>
              LET score == students[req'[r].student].social_score
              IN /\ (req'[r].outcome # "blocked") <=> (score >= 9800)
                 /\ score = 9799 => req'[r].outcome = "blocked"
                 /\ score = 9800 => req'[r].outcome # "blocked"
                 /\ db' = db]_vars

\* A student at exactly 98.00 has passed the gate for the point-bearing event.
C7_Witness ==
    \E r \in Reqs :
        /\ req[r].op = "event_register" /\ req[r].event = "e2"
        /\ req[r].stu.social_score = 9800
        /\ req[r].pc = "register_create"

\* C8: with requests run one at a time, an event_register for a
\* point-bearing event by a student whose social_score is below 98.00 ends
\* blocked with the database unchanged, and every registration created for a
\* point-bearing event is created while the student's score is >= 98.00.
C8_LowScoreRegistrationBlocked ==
    [][/\ \A e \in Events, s \in Students :
             (/\ PointBearing(e)
              /\ registrations[e][s] # "REGISTERED"
              /\ registrations'[e][s] = "REGISTERED")
                 => students[s].social_score >= 9800
       /\ \A r \in Reqs :
             (/\ req'[r].op = "event_register"
              /\ PointBearing(req'[r].event)
              /\ students[req'[r].student].social_score < 9800)
                 => /\ req'[r].pc = "done"
                    /\ req'[r].outcome = "blocked"
                    /\ db' = db]_vars

\* A student who fell to 95.00 by an absence is turned away from the
\* point-bearing event and holds no registration for it.
C8_Witness ==
    \E r \in Reqs :
        /\ req[r].op = "event_register" /\ req[r].event = "e2"
        /\ req[r].student = "s1" /\ req[r].outcome = "blocked"
        /\ students["s1"].social_score = 9500
        /\ Len(social_score_logs["s1"]) = 1
        /\ social_score_logs["s1"][1].reason = "ABSENT_FROM_EVENT"
        /\ registrations["e2"]["s1"] = "NONE"

\* C9 (as claimed): a marking whose status is the one the stored record
\* already has changes neither the student's social_score nor the ledger.
C9_SameStatusIsNoOp ==
    [][\A r \in Reqs :
          (Marking(r) /\ req[r].fetched = req[r].status) =>
              /\ students'[req[r].student].social_score
                     = students[req[r].student].social_score
              /\ social_score_logs'[req[r].student]
                     = social_score_logs[req[r].student]]_vars

\* C10: in every reachable state, also with two workers marking the same
\* pair concurrently, each (event, student) pair has at most one attendance
\* row, no marking has ended in an error, and a marking that has finished
\* leaves the pair with its one row.
C10_OneAttendancePerPair ==
    /\ \A e \in Events, s \in Students : Len(attendance[e][s]) <= 1
    /\ \A r \in Reqs :
          /\ req[r].outcome # "error"
          /\ (Marking(r) /\ req[r].pc \in {"save", "load_student", "done"})
                 => Len(attendance[req[r].event][req[r].student]) = 1

\* Two markings of the same pair raced: one inserted the row, the other's
\* INSERT hit the unique constraint and it goes on to update that row.
C10_Witness ==
    \E r1, r2 \in Reqs :
        /\ r1 # r2
        /\ Marking(r1) /\ Marking(r2)
        /\ req[r1].event = req[r2].event /\ req[r1].student = req[r2].student
        /\ req[r1].created
        /\ req[r2].outcome = "integrity_error" /\ req[r2].pc = "save"
        /\ Len(attendance[req[r2].event][req[r2].student]) = 1

Resetting(r) == req[r].op = "reset_social_score"

\* C11 (as claimed): no step modifies or deletes a ledger entry that already
\* exists; the ledger of every student only grows at its end.
C11_LedgerAppendOnly ==
    [][\A s \in Students :
          /\ Len(social_score_logs'[s]) >= Len(social_score_logs[s])
          /\ \A i \in 1..Len(social_score_logs[s]) :
                 social_score_logs'[s][i] = social_score_logs[s][i]]_vars

\* C12: with requests run one at a time, an admin reset of a student whose
\* stored score is p writes 100.00 and then appends exactly one ledger entry
\* with reason MANUAL_ADJUSTMENT, new_score 100.00 and change_amount
\* 100.00 - p; no other step of the reset touches the score or the ledger.
C12_ResetToFullScore ==
    [][\A r \in Reqs :
          Resetting(r) =>
              LET s == req[r].student
                  logs == social_score_logs[s]
              IN /\ req[r].pc = "reset_save" =>
                        /\ students'[s].social_score = 10000
                        /\ req'[r].old_score = students[s].social_score
                        /\ social_score_logs' = social_score_logs
                 /\ req[r].pc = "reset_log" =>
                        /\ students' = students
                        /\ Len(social_score_logs'[s]) = Len(logs) + 1
                        /\ SubSeq(social_score_logs'[s], 1, Len(logs)) = logs
                        /\ Last(social_score_logs'[s]).reason = "MANUAL_ADJUSTMENT"
                        /\ Last(social_score_logs'[s]).new_score = 10000
                        /\ Last(social_score_logs'[s]).change_amount
                               = 10000 - req[r].old_score
                        /\ students[s].social_score = 10000
                 /\ req[r].pc = "done" => db' = db
                 /\ OthersUntouched(s)]_vars

\* A reset from 2.50 has finished: 100.00, one entry, change +97.50.
C12_Witness ==
    \E r \in Reqs :
        /\ Resetting(r) /\ req[r].pc = "done" /\ req[r].student = "s1"
        /\ students["s1"].social_score = 10000
        /\ Len(social_score_logs["s1"]) = 1
        /\ social_score_logs["s1"][1].reason = "MANUAL_ADJUSTMENT"
        /\ social_score_logs["s1"][1].change_amount = 9750

\* C13 (as claimed): when two workers have marked student s1, who stood at
\* 100.00, ABSENT at the two different events and these are the only two
\* score changes of s1, the score is 90.00, the result of both deltas.
C13_NoLostUpdate ==
    \A r1, r2 \in Reqs :
        (/\ r1 # r2
         /\ Marking(r1) /\ Marking(r2)
         /\ req[r1].pc = "done" /\ req[r2].pc = "done"
         /\ req[r1].student = "s1" /\ req[r2].student = "s1"
         /\ req[r1].status = "ABSENT" /\ req[r2].status = "ABSENT"
         /\ req[r1].event = "e1" /\ req[r2].event = "e2"
         /\ req[r1].created /\ req[r2].created
         /\ score_ops["s1"] = 2
         /\ Len(social_score_logs["s1"]) = 2
         /\ social_score_logs["s1"][1].reason = "ABSENT_FROM_EVENT"
         /\ social_score_logs["s1"][2].reason = "ABSENT_FROM_EVENT")
            => students["s1"].social_score = 9000

\* The student's score immediately before the operation of request r that is
\* about to append its ledger entry: the stored score when write and append
\* are one step, else the score the operation overwrote.
ScoreBefore(r) ==
    IF req[r].pc = "create" THEN students[req[r].student].social_score
    ELSE req[r].old_score

\* C16 (as claimed): every ledger entry's change_amount is its new_score
\* minus the student's score immediately before the operation, also when
\* the score was clamped at 0.00 or at 100.00.
C16_LoggedDeltaIsAppliedDelta ==
    [][\A r \in Reqs :
          (AppendsLog(r) \/ (req[r].pc = "reset_log" /\ req'[r].pc = "done")) =>
              LET s == req[r].student
                  entry == Last(social_score_logs'[s])
              IN Len(social_score_logs'[s]) = Len(social_score_logs[s]) + 1
                     => entry.change_amount = entry.new_score - ScoreBefore(r)]_vars

\* C18: with requests run one at a time, a marking that changes the status
\* of an existing attendance record applies the outcome of the new status to
\* the student's current score (-5.00 floored at 0.00 for ABSENT, +2.50
\* capped at 100.00 for PRESENT at an event without points, nothing for
\* PRESENT at a point-bearing event), appends that outcome's entry and
\* removes or rewrites no earlier entry.
C18_StatusChangeAppliesNewOutcome ==
    [][\A r \in Reqs :
          (Marking(r) /\ req[r].fetched \notin {NULL, req[r].status}) =>
              LET s == req[r].student
                  old == students[s].social_score
                  new == students'[s].social_score
                  logs == social_score_logs[s]
                  n == Len(logs)
              IN /\ req[r].pc = "score_save" =>
                        new = (IF req[r].status = "ABSENT"
                               THEN (IF old >= 500 THEN old - 500 ELSE 0)
                               ELSE (IF old + 250 <= 10000 THEN old + 250 ELSE 10000))
                 /\ req[r].pc # "score_save" => new = old
                 /\ req[r].pc = "log_create" =>
                        /\ Len(social_score_logs'[s]) = n + 1
                        /\ Last(social_score_logs'[s]).new_score = old
                        /\ Last(social_score_logs'[s]).reason
                               = (IF req[r].status = "ABSENT" THEN "ABSENT_FROM_EVENT"
                                  ELSE "PRESENT_AT_NON_ACTIVITY_EVENT")
                 /\ Len(social_score_logs'[s]) >= n
                 /\ \A i \in 1..(IF req[r].pc = "log_event" THEN n - 1 ELSE n) :
                        social_score_logs'[s][i] = logs[i]
                 /\ (req[r].status = "PRESENT" /\ PointBearing(req[r].event)) =>
                        social_score_logs' = social_score_logs
                 /\ Finishes(r) =>
                        /\ attendance'[req[r].event][s] = <<req[r].status>>
                        /\ (req[r].status = "ABSENT" \/ ~PointBearing(req[r].event))
                               => req[r].pc = "log_event"]_vars

\* From 100.00: ABSENT at the event without points, then corrected to
\* PRESENT; 97.50 and two ledger entries.
C18_Witness ==
    \E r \in Reqs :
        /\ Marking(r) /\ req[r].pc = "done" /\ req[r].student = "s2"
        /\ req[r].event = "e1" /\ req[r].status = "PRESENT"
        /\ req[r].fetched = "ABSENT"
        /\ attendance["e1"]["s2"] = <<"PRESENT">>
        /\ students["s2"].social_score = 9750
        /\ Len(social_score_logs["s2"]) = 2
        /\ social_score_logs["s2"][1].reason = "ABSENT_FROM_EVENT"
        /\ social_score_logs["s2"][1].new_score = 9500
        /\ social_score_logs["s2"][2].reason = "PRESENT_AT_NON_ACTIVITY_EVENT"
        /\ social_score_logs["s2"][2].new_score = 9750

Failed(r) == req[r].pc = "done" /\ req[r].outcome = "error"

\* C14 (as claimed): when a request has ended in a failure, every student
\* has one ledger entry per write of the score: no score was changed without
\* its entry.
C14_ScoreAndEntryTogether ==
    \A r \in Reqs :
        Failed(r) => \A s \in Students : Len(social_score_logs[s]) = score_ops[s]

\* C19 (as claimed): when a marking that was to change the status of an
\* existing attendance record has ended in a failure, the record still has
\* the status it had: it is not left with the new status.
C19_StatusAndEffectTogether ==
    \A r \in Reqs :
        (Marking(r) /\ Failed(r) /\ req[r].fetched \notin {NULL, req[r].status})
            => attendance[req[r].event][req[r].student] = <<req[r].fetched>>

\* C17 (as claimed, the "never two" part): no attendance save both changes
\* the student's total_activity_points by recomputing it and changes the
\* score with its ledger entry.
C17_ExactlyOneOutcome ==
    [][\A r \in Reqs :
          Marking(r) =>
              LET s == req[r].student
                  recomputed == students'[s].total_activity_points
                                    # students[s].total_activity_points
              IN /\ (req[r].pc = "create" /\ req'[r].pc = "done") =>
                        ~(recomputed /\ social_score_logs'[s] # social_score_logs[s])
                 /\ req[r].pc = "update_activity_points" =>
                        ~(recomputed /\ req'[r].pc = "score_save")]_vars

\* The score student s stood at in InitOngoing: s1 holds a registration for
\* the point-bearing event exactly when s1 started at the default.
StartOf(s) ==
    IF s = "s1" /\ registrations["e2"]["s1"] = "NONE" THEN 250 ELSE 10000

\* The score after the operations of the ledger entries logs, applied one
\* after the other to the score x.
RECURSIVE Replay(_, _)
Replay(x, logs) ==
    IF logs = <<>> THEN x
    ELSE LET y == IF Head(logs).reason = "ABSENT_FROM_EVENT"
                  THEN (IF x >= 500 THEN x - 500 ELSE 0)
                  ELSE IF Head(logs).reason = "PRESENT_AT_NON_ACTIVITY_EVENT"
                  THEN (IF x + 250 <= 10000 THEN x + 250 ELSE 10000)
                  ELSE 10000
         IN Replay(y, Tail(logs))

\* The worker that marks student s in SpecPar.
WorkerOf(s) == IF s = "s1" THEN "r1" ELSE "r2"

\* Each student's score and ledger are what the student's own operations
\* give when run one after the other from the start score.
SerialOutcome ==
    \A s \in Students :
        LET logs == social_score_logs[s]
            r == WorkerOf(s)
        IN /\ \A i \in 1..Len(logs) :
                  logs[i].new_score = Replay(StartOf(s), SubSeq(logs, 1, i))
           /\ req[r].pc \notin {"log_create", "reset_log"}
                  => students[s].social_score = Replay(StartOf(s), logs)
           /\ (Marking(r) /\ req[r].pc = "done" /\ req[r].status = "PRESENT")
                  => students[s].total_activity_points = PresentPointSum(s)

\* A step of the request of worker r.
StepOf(r) == req'[r] # req[r]

\* C20: with one worker marking (and resetting) s1 and another s2, every
\* step of a request leaves the other student's social_score,
\* total_activity_points, ledger and attendance unchanged, and in every
\* interleaving each student's score and ledger are those of the student's
\* own operations run one after the other.
C20_OtherStudentsUntouched ==
    /\ []SerialOutcome
    /\ [][\A r \in Reqs :
             (StepOf(r) /\ req[r].op # "idle") =>
                 \A o \in Students \ {req[r].student} :
                     /\ students'[o] = students[o]
                     /\ social_score_logs'[o] = social_score_logs[o]
                     /\ \A e \in Events : attendance'[e][o] = attendance[e][o]]_vars

\* Both workers are in the middle of re-marking their own student ABSENT at
\* the same event: each has written its student's score and not yet the
\* ledger entry.
C20_Witness ==
    /\ Marking("r1") /\ Marking("r2")
    /\ req["r1"].pc = "log_create" /\ req["r2"].pc = "log_create"
    /\ req["r1"].event = "e2" /\ req["r2"].event = "e2"
    /\ req["r1"].status = "ABSENT" /\ req["r2"].status = "ABSENT"
    /\ students["s1"].social_score = 9500
    /\ students["s2"].social_score = 9500
    /\ students["s1"].total_activity_points = 10

\* The stored event has activity_points set, within 1..100, exactly when its
\* type is ACTIVITY_POINTS.
PointsIffActivityType ==
    event_row # NoEvent =>
        /\ (event_row.activity_points # <<>>) <=> (event_row.event_type = "ACTIVITY_POINTS")
        /\ event_row.activity_points # <<>> =>
               (event_row.activity_points[1] >= 1 /\ event_row.activity_points[1] <= 100)
        /\ event_row.event_type \in {"NORMAL", "ACTIVITY_POINTS"}

\* C15: the event stored by create_event and edit_event always has
\* activity_points set, as an integer in 1..100, if and only if its type is
\* ACTIVITY_POINTS; a POST for an ACTIVITY_POINTS event whose points are
\* missing, not a number or outside 1..100, or with an unknown type, is
\* rejected, and a rejected POST leaves the stored event and its edit
\* history unchanged.
C15_PointsIffActivityType ==
    /\ []PointsIffActivityType
    /\ [][LET post == event_post'
          IN event_post' # event_post =>
               /\ post.outcome = "rejected" =>
                      /\ event_row' = event_row
                      /\ event_edit_history' = event_edit_history
               /\ (/\ post.event_type = "ACTIVITY_POINTS"
                   /\ post.activity_points \notin {"1", "100"})
                      => post.outcome = "rejected"
               /\ post.event_type \notin {"NORMAL", "ACTIVITY_POINTS"}
                      => post.outcome = "rejected"
               /\ post.outcome = "saved" =>
                      /\ event_row'.event_type = post.event_type
                      /\ post.event_type = "ACTIVITY_POINTS" =>
                             event_row'.activity_points
                                 = (IF post.activity_points = "1" THEN <<1>> ELSE <<100>>)]_vars

\* A NORMAL event was edited into an ACTIVITY_POINTS event worth 100 points,
\* and a later edit asking for 101 points was rejected.
C15_Witness ==
    /\ event_row = [event_type |-> "ACTIVITY_POINTS", activity_points |-> <<100>>]
    /\ Len(event_edit_history) = 1
    /\ event_edit_history[1].old_value = <<>>
    /\ event_post.op = "edit_event"
    /\ event_post.activity_points = "101"
    /\ event_post.outcome = "rejected"

\* The ledger entries of student s that a marking created.
MarkingEntries(s) ==
    {i \in DOMAIN social_score_logs[s] :
        social_score_logs[s][i].reason \in {"ABSENT_FROM_EVENT",
                                            "PRESENT_AT_NON_ACTIVITY_EVENT"}}

\* C22: once the markings have completed, every ledger entry a marking
\* created carries the event of a marking and the remark matching its own
\* reason, also when two markings of one student interleave.
C22_EntryCarriesItsEvent ==
    Quiescent =>
        \A s \in Students : \A i \in MarkingEntries(s) :
            LET entry == social_score_logs[s][i]
            IN /\ entry.event \in Events
               /\ entry.remarks.event = entry.event
               /\ entry.remarks.text = IF entry.reason = "ABSENT_FROM_EVENT"
                                       THEN "Marked absent from"
                                       ELSE "Marked present at (Non-Activity Event)"

\* C23: the step that runs update_activity_points for a PRESENT marking
\* leaves the stored social_score of the student as it was, also while
\* another request changes the score of the same student.
C23_UpdateKeepsScore ==
    [][\A r \in Reqs :
          (\/ req[r].pc = "update_activity_points" /\ req'[r].pc # req[r].pc
           \/ /\ req[r].pc = "create" /\ req'[r].pc = "done"
              /\ req[r].status = "PRESENT"
              /\ has_activity_points(req[r].event))
          => students'[req[r].student].social_score
                 = students[req[r].student].social_score]_vars

\* ------------------------------------------ whole requests, one at a time
\* Ledger entries (over all students) after which no further whole request
\* that changes a score is posted.
MaxMarks == 4

\* clubs.views.event_attendance run alone, for one registered student of an
\* ongoing event: the row is created or its status saved, then the receivers
\* run on the stored student (points on PRESENT, then the score and its
\* ledger entry with the event reference).
event_attendance(e, s, st) ==
    /\ AllIdle
    /\ event_status[e] = "ONGOING"
    /\ registrations[e][s] = "REGISTERED"
    /\ ChangesScore(e, st) => TotalLogs(Students) < MaxMarks
    /\ LET rows == attendance[e][s]
           att == [attendance EXCEPT ![e][s] =
                      IF rows = <<>> THEN <<st>>
                      ELSE [i \in DOMAIN rows |-> IF i = 1 THEN st ELSE rows[i]]]
           stu1 == IF st = "PRESENT"
                   THEN [students[s] EXCEPT !.total_activity_points =
                             calculate_activity_points(att, s)]
                   ELSE students[s]
           stu2 == ScoredStudent(stu1, e, st)
       IN /\ attendance' = att
          /\ students' = [students EXCEPT ![s] = stu2]
          /\ social_score_logs' =
                IF ChangesScore(e, st)
                THEN [social_score_logs EXCEPT ![s] =
                         Append(@, WithEvent(ScoreLogEntry(st, stu2.social_score), st, e))]
                ELSE social_score_logs
          /\ score_ops' = IF ChangesScore(e, st) THEN Bump(s) ELSE score_ops
    /\ UNCHANGED <<event_status, registrations, req, event_vars>>

\* StudentAdmin.reset_social_score run alone on one selected student.
reset_social_score(s) ==
    /\ AllIdle
    /\ TotalLogs(Students) < MaxMarks
    /\ students' = [students EXCEPT ![s].social_score = 10000]
    /\ social_score_logs' = [social_score_logs EXCEPT ![s] =
           Append(@, ResetLogEntry(students[s].social_score))]
    /\ score_ops' = Bump(s)
    /\ UNCHANGED <<event_status, registrations, attendance, req, event_vars>>

\* Every student starts from the field default, is registered for both
\* events, and both events are ongoing.
InitDefault ==
    /\ InitOngoing
    /\ \A s \in Students : students[s].social_score = DefaultScore

\* Attendance markings and admin resets only, each request run to its end
\* before the next.
NextScore ==
    \/ \E e \in Events, s \in Students, st \in {"PRESENT", "ABSENT"} :
           event_attendance(e, s, st)
    \/ \E s \in Students : reset_social_score(s)

SpecScore == InitDefault /\ [][NextScore]_vars

\* The stored score of s passes the gate of point-bearing events.
Eligible(s) == can_register_for_activity_event(students[s].social_score)

\* The ledger positions of s after position i with the given reason.
LaterEntries(s, i, reason) ==
    {j \in DOMAIN social_score_logs[s] :
        j > i /\ social_score_logs[s][j].reason = reason}

\* C30: from the default 100.00, under markings and admin resets, every score
\* is a multiple of 2.50; a student is eligible exactly at 100.00; after an
\* ABSENT the student is eligible again only once a reset or at least two
\* PRESENT markings at non-point events have followed it.
C30_EligibleOnlyAtFullScore ==
    \A s \in Students :
        /\ students[s].social_score % PresentBonus = 0
        /\ Eligible(s) <=> students[s].social_score = DefaultScore
        /\ \A i \in DOMAIN social_score_logs[s] :
               (social_score_logs[s][i].reason = "ABSENT_FROM_EVENT" /\ Eligible(s))
               => \/ LaterEntries(s, i, "MANUAL_ADJUSTMENT") # {}
                  \/ Cardinality(LaterEntries(s, i, "PRESENT_AT_NON_ACTIVITY_EVENT")) >= 2

\* One ABSENT followed by exactly two PRESENT markings at the non-point
\* event, and the student is eligible again at 100.00.
C30_Witness ==
    /\ Len(social_score_logs["s1"]) = 3
    /\ social_score_logs["s1"][1].reason = "ABSENT_FROM_EVENT"
    /\ social_score_logs["s1"][2].reason = "PRESENT_AT_NON_ACTIVITY_EVENT"
    /\ social_score_logs["s1"][3].reason = "PRESENT_AT_NON_ACTIVITY_EVENT"
    /\ Eligible("s1")
    /\ students["s1"].social_score = DefaultScore

\* C25: a step of event_attendance creates or changes an attendance row, a
\* score, a points total or a ledger entry only for an event that is ONGOING
\* and a student who holds a REGISTERED registration for it; no attendance
\* row exists for an event that never left SCHEDULED.
C25_MarkingOnlyWhileOngoing ==
    /\ [](\A e \in Events, s \in Students :
             attendance[e][s] # <<>> => event_status[e] \in {"ONGOING", "COMPLETED"})
    /\ [][/\ \A e \in Events, s \in Students :
                attendance'[e][s] # attendance[e][s]
                => /\ event_status[e] = "ONGOING"
                   /\ registrations[e][s] = "REGISTERED"
          /\ \A r \in Reqs :
                (/\ Marking(r)
                 /\ req'[r] # req[r]
                 /\ \/ students' # students
                    \/ social_score_logs' # social_score_logs)
                => /\ event_status[req[r].event] = "ONGOING"
                   /\ registrations[req[r].event][req[r].student] = "REGISTERED"]_vars

\* A marking has been recorded for an event that has since been completed,
\* while the other event is still only scheduled and has no row.
C25_Witness ==
    /\ event_status["e1"] = "COMPLETED"
    /\ attendance["e1"]["s1"] = <<"ABSENT">>
    /\ event_status["e2"] = "SCHEDULED"
    /\ \A s \in Students : attendance["e2"][s] = <<>>

\* ------------------------------------------- an event from start to end
\* The state after construction with every student at the default score.
InitFresh ==
    /\ Init
    /\ \A s \in Students : students[s].social_score = DefaultScore

\* Registrations, start_event, markings, resets and end_event with its
\* report, PDF and email, one request at a time; the PDF and the email may
\* each fail.
NextEnd ==
    \/ AllIdle /\ BeginMark("r1", Students)
    \/ AllIdle /\ BeginRegister("r1")
    \/ AllIdle /\ Lifecycle
    \/ MarkStep("r1")
    \/ RegisterCreate("r1")
    \/ EndStep("r1")

SpecEnd == InitFresh /\ [][NextEnd]_vars

\* The rows of a report that the PDF and email steps do not own.
ReportCounts(e) ==
    [i \in DOMAIN event_reports[e] |->
        [total_registered |-> event_reports[e][i].total_registered,
         total_present |-> event_reports[e][i].total_present,
         total_absent |-> event_reports[e][i].total_absent,
         attendance_percentage |-> event_reports[e][i].attendance_percentage]]

\* C21: whatever the outcome of the PDF generation and of the email, the
\* step leaves the event COMPLETED, its generated report stored with the same
\* counts, and every attendance row, student row and ledger entry as it was;
\* a finished end_event whose PDF or email failed has a COMPLETED event with
\* its report.
C21_FailureRollsNothingBack ==
    /\ [](\A r \in Reqs :
             (req[r].op = "end_event" /\ req[r].pc \in {"generate_pdf", "send_email", "done"})
             => /\ event_status[req[r].event] = "COMPLETED"
                /\ Len(event_reports[req[r].event]) = 1)
    /\ [][\A r \in Reqs :
             (req[r].pc \in {"generate_pdf", "send_email"} /\ req'[r] # req[r])
             => /\ event_status' = event_status
                /\ ReportCounts(req[r].event)' = ReportCounts(req[r].event)
                /\ attendance' = attendance
                /\ students' = students
                /\ social_score_logs' = social_score_logs
                /\ registrations' = registrations]_vars

\* An end_event has finished with both the PDF and the email failed, for an
\* event with a marked student whose score and ledger the marking changed.
C21_Witness ==
    /\ req["r1"].op = "end_event"
    /\ req["r1"].pc = "done"
    /\ req["r1"].pdf_path = FALSE
    /\ req["r1"].email_sent = FALSE
    /\ event_status[req["r1"].event] = "COMPLETED"
    /\ event_reports[req["r1"].event][1].total_absent = 1
    /\ event_reports[req["r1"].event][1].report_sent_to = NULL
    /\ social_score_logs["s1"] # <<>>

\* ------------------------------- events.views.event_cancel_registration
\* The view loads the student and the event ...
CancelLoad(r, e, s) ==
    /\ req[r].op = "idle"
    /\ event_status[e] # NULL
    /\ req' = [req EXCEPT ![r] = [Idle EXCEPT !.op = "event_cancel_registration",
                                              !.pc = "get_registration",
                                              !.event = e, !.student = s,
                                              !.event_obj = event_status[e]]]
    /\ UNCHANGED <<db, score_ops>>

\* ... gets the REGISTERED registration of the pair (DoesNotExist ends in
\* 'Registration not found') and refuses when the loaded event is ONGOING or
\* COMPLETED.
CancelGet(r) ==
    /\ req[r].pc = "get_registration"
    /\ req' = [req EXCEPT ![r] =
           IF registrations[req[r].event][req[r].student] # "REGISTERED"
           THEN [@ EXCEPT !.pc = "done", !.outcome = "not_found"]
           ELSE IF req[r].event_obj \in {"ONGOING", "COMPLETED"}
           THEN [@ EXCEPT !.pc = "done", !.outcome = "refused"]
           ELSE [@ EXCEPT !.pc = "cancel_save"]]
    /\ UNCHANGED <<db, score_ops>>

\* EventRegistration.cancel_registration: the row is saved CANCELLED.
CancelSave(r) ==
    /\ req[r].pc = "cancel_save"
    /\ registrations' = [registrations EXCEPT ![req[r].event][req[r].student] = "CANCELLED"]
    /\ req' = [req EXCEPT ![r] = [@ EXCEPT !.pc = "done", !.outcome = "cancelled"]]
    /\ UNCHANGED <<students, event_status, attendance, social_score_logs, score_ops, event_vars>>

CancelStep(r) ==
    \/ CancelGet(r)
    \/ CancelSave(r)

\* ------------------------------- clubs.views.edit_event, max_participants
\* The max_participants texts a POST may carry, after strip().
PostedLimits == {"", "1"}

\* The POST of edit_event on event e with a new max_participants, the other
\* fields as stored: refused for a COMPLETED or CANCELLED event, otherwise
\* int(text), or None for the empty text, is saved.
edit_max_participants(e, posted) ==
    /\ AllIdle
    /\ event_status[e] # NULL
    /\ participants_limit' =
          IF event_status[e] \in {"COMPLETED", "CANCELLED"}
          THEN participants_limit
          ELSE [participants_limit EXCEPT ![e] = IF posted = "" THEN 0 ELSE ToInt(posted)]
    /\ UNCHANGED <<students, event_status, registrations, attendance, social_score_logs,
                   req, score_ops, event_row, event_edit_history, event_post,
                   registrations_limit, event_reports>>

\* ------------------------------------------- clubs.views.delete_event
\* The ledger with the event reference of every entry of event e set NULL.
WithoutEvent(e) ==
    [s \in Students |->
        [i \in DOMAIN social_score_logs[s] |->
            IF social_score_logs[s][i].event = e
            THEN [social_score_logs[s][i] EXCEPT !.event = NULL]
            ELSE social_score_logs[s][i]]]

\* The view without its test of the event status.
delete_event_any_status(e) ==
    /\ AllIdle
    /\ event_status[e] # NULL
    /\ event_status' = [event_status EXCEPT ![e] = NULL]
    /\ registrations' = [registrations EXCEPT ![e] = [s \in Students |-> "NONE"]]
    /\ attendance' = [attendance EXCEPT ![e] = [s \in Students |-> <<>>]]
    /\ social_score_logs' = WithoutEvent(e)
    /\ participants_limit' = [participants_limit EXCEPT ![e] = 0]
    /\ event_reports' = [event_reports EXCEPT ![e] = <<>>]
    /\ UNCHANGED <<students, req, score_ops, event_row, event_edit_history,
                   event_post, registrations_limit>>

\* delete_event: refused for an ONGOING or COMPLETED event; otherwise
\* event.delete() removes the row and, by CASCADE, its registrations,
\* attendance rows and reports, and sets the ledger's references NULL.
delete_event(e) ==
    /\ AllIdle
    /\ event_status[e] # NULL
    /\ IF event_status[e] \in {"ONGOING", "COMPLETED"}
       THEN UNCHANGED <<event_status, registrations, attendance, social_score_logs,
                        participants_limit, event_reports>>
       ELSE /\ event_status' = [event_status EXCEPT ![e] = NULL]
            /\ registrations' = [registrations EXCEPT ![e] = [s \in Students |-> "NONE"]]
            /\ attendance' = [attendance EXCEPT ![e] = [s \in Students |-> <<>>]]
            /\ social_score_logs' = WithoutEvent(e)
            /\ participants_limit' = [participants_limit EXCEPT ![e] = 0]
            /\ event_reports' = [event_reports EXCEPT ![e] = <<>>]
    /\ UNCHANGED <<students, req, score_ops, event_row, event_edit_history,
                   event_post, registrations_limit>>

\* ------------------------------------ the student and club views in turn
\* The requests of the student views on an event that exists.
BeginStudentView(r) ==
    \/ \E e \in Events, s \in Students : event_status[e] # NULL /\ RegisterCheck(r, e, s)
    \/ \E e \in Events, s \in Students : CancelLoad(r, e, s)

\* The club views that act on an event as a whole.
ClubView ==
    \/ Lifecycle
    \/ \E e \in Events, posted \in PostedLimits : edit_max_participants(e, posted)
    \/ \E e \in Events : delete_event(e)

\* Registration, cancellation, start, end, edit and delete, one request at a
\* time, from the state after construction.
NextViews ==
    \/ AllIdle /\ BeginStudentView("r1")
    \/ AllIdle /\ ClubView
    \/ RegisterCreate("r1")
    \/ CancelStep("r1")
    \/ EndStep("r1")
    \/ Return("r1")

SpecViews == InitFresh /\ [][NextViews]_vars

\* C24: through the club views the status of an event only moves SCHEDULED
\* to ONGOING and ONGOING to COMPLETED; a COMPLETED event keeps its status,
\* its row and its edited fields; an ONGOING event keeps its row.
C24_StatusOnlyMovesForward ==
    [][\A e \in Events :
          /\ (event_status'[e] # event_status[e] /\ event_status'[e] # NULL)
             => \/ event_status[e] = "SCHEDULED" /\ event_status'[e] = "ONGOING"
                \/ event_status[e] = "ONGOING" /\ event_status'[e] = "COMPLETED"
          /\ event_status[e] = "COMPLETED"
             => /\ event_status'[e] = "COMPLETED"
                /\ participants_limit'[e] = participants_limit[e]
          /\ event_status[e] = "ONGOING" => event_status'[e] # NULL]_vars

\* One event was edited, started and ended and has its report; the other
\* was deleted while it was scheduled.
C24_Witness ==
    /\ event_status["e1"] = "COMPLETED"
    /\ participants_limit["e1"] = 1
    /\ Len(event_reports["e1"]) = 1
    /\ event_status["e2"] = NULL
    /\ AllIdle

\* C28: while the registration of a pair is CANCELLED, no step of an
\* event_register request of that student for that event changes any table,
\* and the request does not end registered: the one row of the pair stays
\* CANCELLED.
C28_CancelledStaysCancelled ==
    [][\A r \in Reqs :
          (/\ req'[r] # req[r]
           /\ req'[r].op = "event_register"
           /\ registrations[req'[r].event][req'[r].student] = "CANCELLED")
          => /\ db' = db
             /\ req'[r].outcome # "registered"
             /\ req'[r].pc = "done" => req'[r].outcome \in {"blocked", "closed", "limit",
                                                            "full", "failed"}]_vars

\* A student who cancelled has tried to register again: the view's checks
\* passed, the validation refused the second row, the row is still CANCELLED.
C28_Witness ==
    /\ req["r1"].op = "event_register"
    /\ req["r1"].pc = "done"
    /\ req["r1"].outcome = "failed"
    /\ registrations[req["r1"].event][req["r1"].student] = "CANCELLED"

\* --------------------------------------------- concurrent registrations
\* The state after construction with every student at the default score,
\* event e1 created with max_participants 1 and student s1 created by the
\* admin with max_event_registrations 1.
InitLimited ==
    /\ students = [s \in Students |-> [social_score |-> DefaultScore,
                                        total_activity_points |-> 0]]
    /\ event_status = [e \in Events |-> "SCHEDULED"]
    /\ registrations = [e \in Events |-> [s \in Students |-> "NONE"]]
    /\ attendance = [e \in Events |-> [s \in Students |-> <<>>]]
    /\ social_score_logs = [s \in Students |-> <<>>]
    /\ req = [r \in Reqs |-> Idle]
    /\ score_ops = [s \in Students |-> 0]
    /\ event_row = NoEvent
    /\ event_edit_history = <<>>
    /\ event_post = NoPost
    /\ participants_limit = [e \in Events |-> IF e = "e1" THEN 1 ELSE 0]
    /\ registrations_limit = [s \in Students |-> IF s = "s1" THEN 1
                                                ELSE DefaultMaxRegistrations]
    /\ event_reports = [e \in Events |-> <<>>]

\* Two workers serve event_register and event_cancel_registration requests
\* that interleave statement by statement, and the club edits
\* max_participants between requests.
NextRegister ==
    \/ \E r \in Reqs : BeginStudentView(r)
    \/ \E r \in Reqs : RegisterCreate(r)
    \/ \E r \in Reqs : CancelStep(r)
    \/ \E r \in Reqs : Return(r)
    \/ \E e \in Events, posted \in PostedLimits : edit_max_participants(e, posted)

SpecRegister == InitLimited /\ [][NextRegister]_vars

\* C26: for every event with max_participants set, the number of REGISTERED
\* registrations is at most max_participants, also when students register at
\* the same time.
C26_WithinCapacity ==
    \A e \in Events :
        max_participants(e) # 0 => get_registered_count(e) <= max_participants(e)

\* C27: for every student, the number of REGISTERED registrations at
\* SCHEDULED or ONGOING events is at most max_event_registrations, also when
\* the student registers for several events at the same time.
C27_WithinStudentLimit ==
    \A s \in Students :
        get_active_registrations_count(s) <= registrations_limit[s]

\* --------------------------------- student views against the club views
\* The steps of an event_attendance request in flight.
AttendanceStep(r) ==
    \/ GetOrCreateGet(r)
    \/ GetOrCreateCreate(r)
    \/ AttendanceSave(r)
    \/ LoadStudent(r)
    \/ UpdateActivityPoints(r)
    \/ ScoreSave(r)
    \/ LogCreate(r)
    \/ LogEvent(r)

\* Worker r1 serves the student views (register, cancel) of student s1 while
\* worker r2 serves the club views (start, mark attendance, end) of event e1;
\* their requests interleave statement by statement.
NextMixed ==
    \/ RegisterCheck("r1", "e1", "s1")
    \/ CancelLoad("r1", "e1", "s1")
    \/ RegisterCreate("r1")
    \/ CancelStep("r1")
    \/ req["r2"].op = "idle" /\ start_event("e1")
    \/ \E st \in {"PRESENT", "ABSENT"} : BeginAttendance("r2", "e1", "s1", st)
    \/ AttendanceStep("r2")
    \/ end_event("r2", "e1")
    \/ EndStep("r2")
    \/ \E r \in Reqs : Return(r)

SpecMixed == InitFresh /\ [][NextMixed]_vars

\* C29: for every event, the PRESENT and ABSENT attendance rows are at most
\* as many as the REGISTERED registrations (not_marked is not negative) and
\* every student with an attendance row holds a REGISTERED registration,
\* under any interleaving of the student views and the club views.
C29_MarkedAreRegistered ==
    \A e \in Events :
        /\ get_attendance_summary(e).not_marked >= 0
        /\ \A s \in Students :
               attendance[e][s] # <<>> => registrations[e][s] = "REGISTERED"

====
